---- MODULE Spec2Model ----
(***************************************************************************)
(* A model of the tages file service: the storage engine                   *)
(* (internal/storage: SaveFile, GetFile, ListFiles over an in-memory       *)
(* catalog and one blob per id on disk) and the gRPC server                *)
(* (internal/server: UploadFile, DownloadFile, ListFiles behind three      *)
(* channel semaphores).                                                    *)
(*                                                                         *)
(* Byte slices are kept run-length encoded: a []byte is a sequence of runs *)
(* <<b, n>> (n copies of byte b, n > 0), adjacent runs holding different   *)
(* bytes, so that blobs of several MiB are values TLC can hold and the     *)
(* download chunk size keeps its real value.                               *)
(***************************************************************************)
EXTENDS Integers, Sequences, FiniteSets, Bags, TLC

VARIABLES
    now,                \* the reading time.Now() gives (UnixNano)
    directory,          \* the storage directory: file name -> content
    files,              \* storage.files: id -> FileMetadata
    uploadSemaphore,    \* len(server.uploadSemaphore)
    downloadSemaphore,  \* len(server.downloadSemaphore)
    listSemaphore,      \* len(server.listSemaphore)
    uploads,            \* bag of the UploadFile calls past admission
    downloads,          \* bag of the DownloadFile calls past admission
    lists,              \* bag of the ListFiles calls past admission
    running,            \* FALSE once a panic has ended the process
    mu,                 \* storage.mu: held by a writer, or by so many readers
    calls,              \* bag of the direct storage calls inside their critical section
    done,               \* what the step just taken returned to a client, if it did
    hist                \* history of the storage calls (observation)

vars == <<now, directory, files, uploadSemaphore, downloadSemaphore,
          listSemaphore, uploads, downloads, lists, running, mu, calls,
          done, hist>>

serverVars == <<uploadSemaphore, downloadSemaphore, listSemaphore,
                uploads, downloads, lists>>

(***************************************************************************)
(* Bounds of the model.                                                    *)
(***************************************************************************)
\* the clock reading at process start (the clock advances from here)
StartTime == 1700000000
\* how many times the clock reading advances
MaxTicks == 1
\* how many calls have a stream in progress at once (the others are stalled)
MaxStreaming == 1
\* how many storage calls hold the read lock at once
MaxReaders == 2
\* how many messages one upload stream delivers after its first
MaxMsgs == 2
\* the largest page size and page number a client asks for
MaxPage == 2

(***************************************************************************)
(* Program constants.                                                      *)
(***************************************************************************)
MaxUploadConcurrency == 10
MaxDownloadConcurrency == 10
MaxListConcurrency == 100
chunkSize == 1024 * 1024

None == "none"

\* no call record: the call was turned away, or returned nothing
NoCall == [pc |-> "none"]

\* done when the step just taken returned from no call
NoDone == [op |-> None, code |-> None, call |-> NoCall]

(***************************************************************************)
(* []byte, run-length encoded.                                             *)
(***************************************************************************)
RECURSIVE len(_)
len(d) == IF d = <<>> THEN 0 ELSE Head(d)[2] + len(Tail(d))

\* mutant of append: the new bytes go in front
appendInFront(d, e) ==
    IF d = <<>> THEN e
    ELSE IF e = <<>> THEN d
    ELSE IF e[Len(e)][1] = d[1][1]
         THEN SubSeq(e, 1, Len(e) - 1)
                \o <<(<<d[1][1], e[Len(e)][2] + d[1][2]>>)>>
                \o Tail(d)
         ELSE e \o d

\* append(d, e...)
append(d, e) ==
    IF d = <<>> THEN e
    ELSE IF e = <<>> THEN d
    ELSE IF d[Len(d)][1] = e[1][1]
         THEN SubSeq(d, 1, Len(d) - 1)
                \o <<(<<e[1][1], d[Len(d)][2] + e[1][2]>>)>>
                \o Tail(e)
         ELSE d \o e

\* d[k:]
RECURSIVE sliceFrom(_, _)
sliceFrom(d, k) ==
    IF k = 0 \/ d = <<>> THEN d
    ELSE IF Head(d)[2] <= k THEN sliceFrom(Tail(d), k - Head(d)[2])
    ELSE <<(<<Head(d)[1], Head(d)[2] - k>>)>> \o Tail(d)

\* d[:k]
RECURSIVE sliceTo(_, _)
sliceTo(d, k) ==
    IF k = 0 \/ d = <<>> THEN <<>>
    ELSE IF Head(d)[2] <= k
         THEN <<Head(d)>> \o sliceTo(Tail(d), k - Head(d)[2])
    ELSE <<(<<Head(d)[1], k>>)>>

\* d[i:j]
slice(d, i, j) == sliceTo(sliceFrom(d, i), j - i)

(***************************************************************************)
(* The clock and the identifiers made from it.                             *)
(***************************************************************************)
\* strconv of a non-negative integer: its decimal digits, most significant first
RECURSIVE Sprintf(_)
Sprintf(n) == IF n < 10 THEN <<n>> ELSE Sprintf(n \div 10) \o <<n % 10>>

\* time.Time.Unix of a UnixNano reading
Unix(t) == t \div 1000000000

\* the file names the model looks at: the ids of this run and one of an earlier run
Ids == {Sprintf(t) : t \in (StartTime - 1) .. (StartTime + MaxTicks)}

(***************************************************************************)
(* The storage engine (package storage).                                   *)
(***************************************************************************)
\* a Go map or a directory with one more entry (or one entry replaced)
Put(m, k, v) == [x \in DOMAIN m \cup {k} |-> IF x = k THEN v ELSE m[x]]

Empty == [x \in {} |-> None]

\* sync.RWMutex: Lock waits until no writer and no reader holds it, RLock
\* until no writer does
Unlocked == [writer |-> FALSE, readers |-> 0]

CanLock(m) == ~m.writer /\ m.readers = 0

Lock(m) == [m EXCEPT !.writer = TRUE]

Unlock(m) == [m EXCEPT !.writer = FALSE]

CanRLock(m) == ~m.writer

RLock(m) == [m EXCEPT !.readers = @ + 1]

RUnlock(m) == [m EXCEPT !.readers = @ - 1]

\* NewStorage: an empty catalog over the directory as it is found, the mutex free
NewStorage(dir) == [directory |-> dir, files |-> Empty, mu |-> Unlocked]

\* filepath.Join(s.directory, id): the file of that name in the directory
Join(id) == id

\* ioutil.WriteFile(path, data, 0644) with outcome w: "ok"; "open", the file
\* cannot be created or truncated; "short", it is created or truncated and
\* the write stops early
WriteFile(dir, path, data, w) ==
    CASE w = "ok"    -> [directory |-> Put(dir, path, data), err |-> None]
      [] w = "open"  -> [directory |-> dir, err |-> "EIO"]
      [] w = "short" -> [directory |-> Put(dir, path, sliceTo(data, len(data) \div 2)),
                         err |-> "EIO"]

WriteOutcomes == {"ok", "open", "short"}

\* mutant of ReadFile: a missing file reads as an empty one
ReadFileMissingAsEmpty(dir, path) ==
    [data |-> IF path \in DOMAIN dir THEN dir[path] ELSE <<>>, err |-> None]

\* os.ReadFile(path)
ReadFile(dir, path) ==
    IF path \in DOMAIN dir
    THEN [data |-> dir[path], err |-> None]
    ELSE [data |-> <<>>, err |-> "ENOENT"]

\* the id SaveFile makes of the clock reading t
NewId(t) == Sprintf(t)

\* the catalog entry SaveFile makes
Metadata(id, filename, data, t) ==
    [Id |-> id, Filename |-> filename, Size |-> len(data),
     CreatedAt |-> Unix(t), UpdatedAt |-> Unix(t)]

\* mutant of storageSaveFile: the catalog entry is made before the write
storageSaveFileEntryFirst(dir, cat, t, filename, data, w) ==
    LET id   == NewId(t)
        path == Join(id)
        wr   == WriteFile(dir, path, data, w)
    IN  [directory |-> wr.directory,
         files |-> Put(cat, id, Metadata(id, filename, data, t)),
         id |-> IF wr.err # None THEN <<>> ELSE id, err |-> wr.err, path |-> path]

\* storage.SaveFile(filename, data) in directory dir with catalog cat, both
\* its time.Now() reading t, the write ending as w: the directory and catalog
\* it leaves and what it returns
storageSaveFile(dir, cat, t, filename, data, w) ==
    LET id   == NewId(t)
        path == Join(id)
        wr   == WriteFile(dir, path, data, w)
    IN  IF wr.err # None
        THEN [directory |-> wr.directory, files |-> cat,
              id |-> <<>>, err |-> wr.err, path |-> path]
        ELSE [directory |-> wr.directory,
              files |-> Put(cat, id, Metadata(id, filename, data, t)),
              id |-> id, err |-> None, path |-> path]

\* mutant of storageGetFile: the error of the read is dropped
storageGetFileNoError(dir, id) == [ReadFile(dir, Join(id)) EXCEPT !.err = None]

\* storage.GetFile(id)
storageGetFile(dir, id) == ReadFile(dir, Join(id))

\* the orders a range over a map of these keys can take
Orders(S) ==
    {o \in [1 .. Cardinality(S) -> S] : \A i, j \in DOMAIN o : o[i] = o[j] => i = j}

\* mutant of listLoop: the entry at index end is taken too
RECURSIVE listLoopInclusive(_, _, _, _, _, _)
listLoopInclusive(cat, order, i, start, end, acc) ==
    IF order = <<>> THEN acc
    ELSE LET acc2 == IF i >= start /\ i <= end
                     THEN Append(acc, cat[Head(order)]) ELSE acc
         IN  IF i + 1 > end THEN acc2
             ELSE listLoopInclusive(cat, Tail(order), i + 1, start, end, acc2)

\* the loop of ListFiles over the rest of the iteration order, i entries in
RECURSIVE listLoop(_, _, _, _, _, _)
listLoop(cat, order, i, start, end, acc) ==
    IF order = <<>> THEN acc
    ELSE LET acc2 == IF i >= start /\ i < end
                     THEN Append(acc, cat[Head(order)]) ELSE acc
         IN  IF i + 1 >= end THEN acc2
             ELSE listLoop(cat, Tail(order), i + 1, start, end, acc2)

\* storage.ListFiles(pageSize, pageNumber) when the range over the catalog
\* takes the given order; make() with a negative capacity panics
storageListFiles(cat, pageSize, pageNumber, order) ==
    LET n     == Cardinality(DOMAIN cat)
        start == pageSize * (pageNumber - 1)
        end0  == start + pageSize
        end   == IF end0 > n THEN n ELSE end0
    IN  IF end - start < 0
        THEN [files |-> <<>>, totalCount |-> 0, err |-> None, panic |-> TRUE]
        ELSE [files |-> listLoop(cat, order, 0, start, end, <<>>),
              totalCount |-> n, err |-> None, panic |-> FALSE]

(***************************************************************************)
(* Observation of the direct calls of the storage engine.  hist is         *)
(* written, never read, by those steps:                                    *)
(*   initial  the file names found in the directory at start               *)
(*   written  the paths a WriteFile of this process created or truncated   *)
(*   saved    id -> the data of the first SaveFile that returned that id    *)
(*   scan     the pages ListFiles returned for page 1, 2, ... of one page   *)
(*            size since the catalog last changed                          *)
(*   ret      what the step just taken returned, if it was a direct call   *)
(*            of the storage engine                                        *)
(***************************************************************************)
NoScan == [pageSize |-> 0, pages |-> <<>>]

NoRet == [op |-> None, id |-> <<>>, err |-> None]

\* ceil(n / k) for k > 0
CeilDiv(n, k) == (n + k - 1) \div k

HistSave(h, sf, data, w) ==
    [h EXCEPT !.written = IF w = "open" THEN @ ELSE @ \cup {sf.path},
              !.saved   = IF sf.err = None /\ sf.id \notin DOMAIN @
                          THEN Put(@, sf.id, data) ELSE @,
              !.scan    = IF sf.err = None THEN NoScan ELSE @]

\* the ids of one returned page
RECURSIVE PageIds(_)
PageIds(page) == IF page = <<>> THEN <<>> ELSE <<Head(page).Id>> \o PageIds(Tail(page))

HistList(h, cat, pageSize, pageNumber, r) ==
    LET n == Cardinality(DOMAIN cat)
        sc == h.scan
    IN  [h EXCEPT !.scan =
            IF r.panic \/ pageSize <= 0 \/ pageNumber > CeilDiv(n, pageSize)
            THEN NoScan
            ELSE IF pageNumber = 1
            THEN [pageSize |-> pageSize, pages |-> <<PageIds(r.files)>>]
            ELSE IF pageSize = sc.pageSize /\ pageNumber = Len(sc.pages) + 1
            THEN [sc EXCEPT !.pages = Append(@, PageIds(r.files))]
            ELSE NoScan]

(***************************************************************************)
(* Direct calls of the storage engine, as the storage tests make them.     *)
(* Each runs under the storage's mutex (SaveFile under Lock, the others    *)
(* under RLock) from its first statement to its return, so each is one     *)
(* step, taken when the mutex can be had.                                  *)
(***************************************************************************)
\* mutant of Tick: as time passes the uploads still waiting for their first
\* message are timed out and their slots given back
TickTimesOut ==
    /\ running
    /\ now < StartTime + MaxTicks
    /\ now' = now + 1
    /\ done' = NoDone
    /\ hist' = [hist EXCEPT !.ret = NoRet]
    /\ uploads' = [c \in {x \in DOMAIN uploads : x.pc # "recvFirst"} |-> uploads[c]]
    /\ uploadSemaphore' = BagCardinality(uploads')
    /\ UNCHANGED <<mu, calls>>
    /\ UNCHANGED <<directory, files, downloadSemaphore, listSemaphore,
                   downloads, lists, running>>

\* time passes: the next time.Now() reads later
Tick ==
    /\ running
    /\ now < StartTime + MaxTicks
    /\ now' = now + 1
    /\ done' = NoDone
    /\ hist' = [hist EXCEPT !.ret = NoRet]
    /\ UNCHANGED <<mu, calls>>
    /\ UNCHANGED <<directory, files, serverVars, running>>

SaveFile(filename, data, w) ==
    /\ running
    /\ LET sf == storageSaveFile(directory, files, now, filename, data, w)
       IN  /\ directory' = sf.directory
           /\ files' = sf.files
           /\ hist' = [HistSave(hist, sf, data, w) EXCEPT
                         !.ret = [op |-> "SaveFile", id |-> sf.id, err |-> sf.err]]
    /\ done' = NoDone
    /\ CanLock(mu)
    /\ mu' = Unlock(Lock(mu))
    /\ UNCHANGED calls
    /\ UNCHANGED <<now, serverVars, running>>

GetFile(id) ==
    /\ running
    /\ LET r == storageGetFile(directory, id)
       IN  hist' = [hist EXCEPT !.ret = [op |-> "GetFile", id |-> id, err |-> r.err]]
    /\ done' = NoDone
    /\ CanRLock(mu)
    /\ mu' = RUnlock(RLock(mu))
    /\ UNCHANGED calls
    /\ UNCHANGED <<now, directory, files, serverVars, running>>

ListFiles(pageSize, pageNumber, order) ==
    /\ running
    /\ LET r == storageListFiles(files, pageSize, pageNumber, order)
       IN  /\ hist' = [HistList(hist, files, pageSize, pageNumber, r) EXCEPT
                         !.ret = [op |-> "ListFiles", id |-> <<>>,
                                  err |-> IF r.panic THEN "panic" ELSE r.err]]
           /\ running' = ~r.panic
    /\ done' = NoDone
    /\ CanRLock(mu)
    /\ mu' = RUnlock(RLock(mu))
    /\ UNCHANGED calls
    /\ UNCHANGED <<now, directory, files, serverVars>>

(***************************************************************************)
(* The same calls statement by statement, as concurrent goroutines make    *)
(* them: a call enters its critical section by taking the mutex (calls     *)
(* holds it from then on, pc telling where it stands) and leaves it with   *)
(* its return, when the deferred unlock runs.                              *)
(***************************************************************************)
StorageCall(op, pc, filename, data, id, pageSize, pageNumber) ==
    [op |-> op, pc |-> pc, filename |-> filename, data |-> data, id |-> id,
     pageSize |-> pageSize, pageNumber |-> pageNumber]

\* SaveFile: s.mu.Lock()
SaveFileLock(filename, data) ==
    /\ running
    /\ CanLock(mu)
    /\ mu' = Lock(mu)
    /\ calls' = calls (+) SetToBag({StorageCall("SaveFile", "write", filename, data,
                                                <<>>, 0, 0)})
    /\ done' = NoDone
    /\ hist' = [hist EXCEPT !.ret = NoRet]
    /\ UNCHANGED <<now, directory, files, serverVars, running>>

\* SaveFile: the id, the path and ioutil.WriteFile, ending as w; a failed
\* write returns the error
SaveFileWrite(c, w) ==
    /\ running
    /\ BagIn(c, calls)
    /\ c.op = "SaveFile" /\ c.pc = "write"
    /\ LET id == NewId(now)
           wr == WriteFile(directory, Join(id), c.data, w)
           wrote == [hist EXCEPT !.written = IF w = "open" THEN @
                                             ELSE @ \cup {Join(id)}]
       IN  /\ directory' = wr.directory
           /\ IF wr.err # None
              THEN /\ calls' = calls (-) SetToBag({c})
                   /\ mu' = Unlock(mu)
                   /\ hist' = [wrote EXCEPT !.ret = [op |-> "SaveFile", id |-> <<>>,
                                                     err |-> wr.err]]
              ELSE /\ calls' = (calls (-) SetToBag({c}))
                                  (+) SetToBag({[c EXCEPT !.pc = "insert", !.id = id]})
                   /\ mu' = mu
                   /\ hist' = [wrote EXCEPT !.ret = NoRet]
    /\ done' = NoDone
    /\ UNCHANGED <<now, files, serverVars, running>>

\* SaveFile: the catalog entry and the return of the id
SaveFileInsert(c) ==
    /\ running
    /\ BagIn(c, calls)
    /\ c.op = "SaveFile" /\ c.pc = "insert"
    /\ files' = Put(files, c.id, Metadata(c.id, c.filename, c.data, now))
    /\ calls' = calls (-) SetToBag({c})
    /\ mu' = Unlock(mu)
    /\ hist' = [HistSave(hist, [id |-> c.id, err |-> None, path |-> Join(c.id)],
                         c.data, "ok")
                  EXCEPT !.ret = [op |-> "SaveFile", id |-> c.id, err |-> None]]
    /\ done' = NoDone
    /\ UNCHANGED <<now, directory, serverVars, running>>

\* GetFile: s.mu.RLock()
GetFileRLock(id) ==
    /\ running
    /\ CanRLock(mu)
    /\ mu' = RLock(mu)
    /\ calls' = calls (+) SetToBag({StorageCall("GetFile", "read", "", <<>>, id, 0, 0)})
    /\ done' = NoDone
    /\ hist' = [hist EXCEPT !.ret = NoRet]
    /\ UNCHANGED <<now, directory, files, serverVars, running>>

\* GetFile: os.ReadFile and the return
GetFileRead(c) ==
    /\ running
    /\ BagIn(c, calls)
    /\ c.op = "GetFile"
    /\ LET r == storageGetFile(directory, c.id)
       IN  hist' = [hist EXCEPT !.ret = [op |-> "GetFile", id |-> c.id, err |-> r.err]]
    /\ calls' = calls (-) SetToBag({c})
    /\ mu' = RUnlock(mu)
    /\ done' = NoDone
    /\ UNCHANGED <<now, directory, files, serverVars, running>>

\* ListFiles: s.mu.RLock()
ListFilesRLock(pageSize, pageNumber) ==
    /\ running
    /\ CanRLock(mu)
    /\ mu' = RLock(mu)
    /\ calls' = calls (+) SetToBag({StorageCall("ListFiles", "list", "", <<>>, <<>>,
                                                pageSize, pageNumber)})
    /\ done' = NoDone
    /\ hist' = [hist EXCEPT !.ret = NoRet]
    /\ UNCHANGED <<now, directory, files, serverVars, running>>

\* ListFiles: the window, the loop and the return
ListFilesList(c, order) ==
    /\ running
    /\ BagIn(c, calls)
    /\ c.op = "ListFiles"
    /\ LET r == storageListFiles(files, c.pageSize, c.pageNumber, order)
       IN  /\ hist' = [HistList(hist, files, c.pageSize, c.pageNumber, r) EXCEPT
                         !.ret = [op |-> "ListFiles", id |-> <<>>,
                                  err |-> IF r.panic THEN "panic" ELSE r.err]]
           /\ running' = ~r.panic
    /\ calls' = calls (-) SetToBag({c})
    /\ mu' = RUnlock(mu)
    /\ done' = NoDone
    /\ UNCHANGED <<now, directory, files, serverVars>>

(***************************************************************************)
(* The server (package server).  A call past admission is a record in the  *)
(* bag of its kind; pc is where its handler stands.  The fields msgs,      *)
(* ended, saves and sent are histories kept for the claims: the messages   *)
(* the call received, the error that ended its stream (io.EOF or another), *)
(* its SaveFile calls (arguments, results and the size the catalog entry   *)
(* got), the chunks it sent.                                               *)
(***************************************************************************)
\* mutants of TryAcquire: a pool one slot larger, a pool one slot smaller
TryAcquireOneMore(sem, capacity) == sem <= capacity

TryAcquireOneLess(sem, capacity) == sem + 1 < capacity

\* select { case sem <- struct{}{}: ... default: ... }: the send is taken
\* when the channel has room, the default otherwise
TryAcquire(sem, capacity) == sem < capacity

\* <-sem
Release(sem) == sem - 1

\* call c is past the first step of its handler after admission
InStream(c) == c.pc # "recvFirst" /\ c.pc # "getFile"

\* a channel made with make(chan struct{}, n), and the nil channel of a
\* zero server: a send on a nil channel is never ready
Chan(n) == [nil |-> FALSE, cap |-> n]

NilChan == [nil |-> TRUE, cap |-> 0]

\* NewServer(storage)
NewServer(storage) ==
    [storage |-> storage,
     uploadSemaphore |-> Chan(MaxUploadConcurrency),
     downloadSemaphore |-> Chan(MaxDownloadConcurrency),
     listSemaphore |-> Chan(MaxListConcurrency)]

\* &server{}
ZeroServer ==
    [storage |-> None, uploadSemaphore |-> NilChan,
     downloadSemaphore |-> NilChan, listSemaphore |-> NilChan]

\* the server whose handlers the grpc server of s.Serve() runs
Serve(s) == ZeroServer

\* the server main makes, over its storage engine
Constructed == NewServer("storage")

\* case ch <- struct{}{} of a select with a default, ch holding n
TrySend(ch, n) == ~ch.nil /\ TryAcquire(n, ch.cap)

\* the calls of a bag that are in their stream, as a bag
StreamingIn(bag) == [c \in {x \in DOMAIN bag : InStream(x)} |-> bag[c]]

\* how many calls are between the first and the last message of their stream
Streaming ==
    BagCardinality(StreamingIn(uploads)) + BagCardinality(StreamingIn(downloads))

Returned(op, code, call) == [op |-> op, code |-> code, call |-> call]

-----------------------------------------------------------------------------
\* UploadFileRequest: Data is Info or ChunkData
Info(filename) == [kind |-> "info", filename |-> filename, data |-> <<>>]

Chunk(data) == [kind |-> "chunk", filename |-> "", data |-> data]

\* a nil *FileInfo
NilInfo == [nil |-> TRUE, Filename |-> ""]

\* mutant of GetInfo: a message without file info gives an empty FileInfo, not nil
GetInfoNeverNil(m) ==
    [nil |-> FALSE, Filename |-> IF m.kind = "info" THEN m.filename ELSE ""]

GetInfo(m) ==
    IF m.kind = "info" THEN [nil |-> FALSE, Filename |-> m.filename] ELSE NilInfo

GetChunkData(m) == IF m.kind = "chunk" THEN m.data ELSE <<>>

\* what stream.Recv() returns: a message, io.EOF or a transport error
NoMsg == [kind |-> "none", filename |-> "", data |-> <<>>]

Recv(m) == [msg |-> m, err |-> None]

RecvEOF == [msg |-> NoMsg, err |-> "EOF"]

RecvErr == [msg |-> NoMsg, err |-> "ERR"]

\* no UploadFileResponse
NoResp == [Id |-> <<>>, Filename |-> "", Size |-> 0, CreatedAt |-> 0]

\* an UploadFile call right after admission
UploadStart ==
    [pc |-> "recvFirst", info |-> NilInfo, data |-> <<>>, msgs |-> <<>>,
     ended |-> None, saves |-> <<>>, resp |-> NoResp]

\* UploadFile arrives at server s: one slot, or ResourceExhausted at once
UploadFileOn(s) ==
    /\ running
    /\ IF TrySend(s.uploadSemaphore, uploadSemaphore)
       THEN /\ uploadSemaphore' = uploadSemaphore + 1
            /\ uploads' = uploads (+) SetToBag({UploadStart})
            /\ done' = NoDone
       ELSE /\ done' = Returned("UploadFile", "ResourceExhausted", NoCall)
            /\ UNCHANGED <<uploadSemaphore, uploads>>
    /\ UNCHANGED <<mu, calls>>
    /\ UNCHANGED <<now, directory, files, downloadSemaphore, listSemaphore,
                   downloads, lists, running, hist>>

\* UploadFile arrives at the server NewServer made
UploadFile == UploadFileOn(Constructed)

\* mutant of UploadReturn: the slot is given back at the end of the handler
\* only, not on the early return for a first message without file info
UploadReturnLeak(c, final, code) ==
    /\ uploads' = uploads (-) SetToBag({c})
    /\ uploadSemaphore' = IF code = "InvalidArgument" THEN uploadSemaphore
                          ELSE Release(uploadSemaphore)
    /\ done' = Returned("UploadFile", code, final)

\* the handler of call c returns code: the deferred release runs
UploadReturn(c, final, code) ==
    /\ uploads' = uploads (-) SetToBag({c})
    /\ uploadSemaphore' = Release(uploadSemaphore)
    /\ done' = Returned("UploadFile", code, final)

\* call c moves on to c2
UploadStep(c, c2) ==
    /\ uploads' = (uploads (-) SetToBag({c})) (+) SetToBag({c2})
    /\ uploadSemaphore' = uploadSemaphore
    /\ done' = NoDone

\* the first stream.Recv() of call c returns r
UploadFileRecvFirst(c, r) ==
    /\ running
    /\ BagIn(c, uploads)
    /\ c.pc = "recvFirst"
    /\ IF r.err # None
       THEN UploadReturn(c, [c EXCEPT !.ended = r.err], r.err)
       ELSE LET got == [c EXCEPT !.msgs = Append(@, r.msg)]
                fileInfo == GetInfo(r.msg)
            IN  IF fileInfo.nil
                THEN UploadReturn(c, got, "InvalidArgument")
                ELSE UploadStep(c, [got EXCEPT !.pc = "recv", !.info = fileInfo])
    /\ UNCHANGED <<mu, calls>>
    /\ UNCHANGED <<now, directory, files, downloadSemaphore, listSemaphore,
                   downloads, lists, running, hist>>

\* mutant of UploadFileRecv: when the stream fails the chunks received so
\* far are saved before the handler returns
UploadFileRecvKeepsPartial(c, r) ==
    /\ running
    /\ BagIn(c, uploads)
    /\ c.pc = "recv"
    /\ r.err # "EOF"
    /\ IF r.err # None
       THEN LET sf == storageSaveFile(directory, files, now, c.info.Filename,
                                      c.data, "ok")
            IN  /\ directory' = sf.directory
                /\ files' = sf.files
                /\ UploadReturn(c, [c EXCEPT !.ended = r.err], r.err)
       ELSE /\ UploadStep(c, [c EXCEPT !.msgs = Append(@, r.msg),
                                       !.data = append(@, GetChunkData(r.msg))])
            /\ UNCHANGED <<directory, files>>
    /\ UNCHANGED <<mu, calls>>
    /\ UNCHANGED <<now, downloadSemaphore, listSemaphore,
                   downloads, lists, running, hist>>

\* a stream.Recv() of the loop returns r, a message or a transport error
UploadFileRecv(c, r) ==
    /\ running
    /\ BagIn(c, uploads)
    /\ c.pc = "recv"
    /\ r.err # "EOF"
    /\ IF r.err # None
       THEN UploadReturn(c, [c EXCEPT !.ended = r.err], r.err)
       ELSE UploadStep(c, [c EXCEPT !.msgs = Append(@, r.msg),
                                    !.data = append(@, GetChunkData(r.msg))])
    /\ UNCHANGED <<mu, calls>>
    /\ UNCHANGED <<now, directory, files, downloadSemaphore, listSemaphore,
                   downloads, lists, running, hist>>

\* the response UploadFile builds once SaveFile returned id, the clock reading t
UploadFileResponse(id, fileInfo, data, t) ==
    [Id |-> id, Filename |-> fileInfo.Filename, Size |-> len(data),
     CreatedAt |-> Unix(t)]

\* stream.Recv() returns io.EOF: the loop ends and SaveFile runs, its write
\* ending as w
UploadFileSave(c, w) ==
    /\ running
    /\ BagIn(c, uploads)
    /\ c.pc = "recv"
    /\ LET sf == storageSaveFile(directory, files, now, c.info.Filename, c.data, w)
           called == [c EXCEPT !.ended = "EOF", !.saves =
                        Append(@, [filename |-> c.info.Filename, data |-> c.data,
                                   write |-> w, id |-> sf.id, err |-> sf.err,
                                   size |-> IF sf.err = None
                                            THEN sf.files[sf.id].Size ELSE 0])]
       IN  /\ directory' = sf.directory
           /\ files' = sf.files
           /\ IF sf.err # None
              THEN UploadReturn(c, called, "Internal")
              ELSE UploadStep(c, [called EXCEPT
                       !.pc = "send",
                       !.resp = UploadFileResponse(sf.id, c.info, c.data, now)])
    /\ CanLock(mu)
    /\ mu' = Unlock(Lock(mu))
    /\ UNCHANGED calls
    /\ UNCHANGED <<now, downloadSemaphore, listSemaphore, downloads, lists, running,
                   hist>>

\* stream.SendAndClose(resp) returns nil or a transport error
UploadFileSendAndClose(c, err) ==
    /\ running
    /\ BagIn(c, uploads)
    /\ c.pc = "send"
    /\ UploadReturn(c, c, IF err = None THEN "OK" ELSE err)
    /\ UNCHANGED <<mu, calls>>
    /\ UNCHANGED <<now, directory, files, downloadSemaphore, listSemaphore,
                   downloads, lists, running, hist>>

-----------------------------------------------------------------------------
\* a DownloadFile call right after admission
DownloadStart == [pc |-> "getFile", id |-> <<>>, data |-> <<>>, i |-> 0, sent |-> <<>>]

\* DownloadFile arrives at server s
DownloadFileOn(s) ==
    /\ running
    /\ IF TrySend(s.downloadSemaphore, downloadSemaphore)
       THEN /\ downloadSemaphore' = downloadSemaphore + 1
            /\ downloads' = downloads (+) SetToBag({DownloadStart})
            /\ done' = NoDone
       ELSE /\ done' = Returned("DownloadFile", "ResourceExhausted", NoCall)
            /\ UNCHANGED <<downloadSemaphore, downloads>>
    /\ UNCHANGED <<mu, calls>>
    /\ UNCHANGED <<now, directory, files, uploadSemaphore, listSemaphore,
                   uploads, lists, running, hist>>

\* DownloadFile arrives at the server NewServer made
DownloadFile == DownloadFileOn(Constructed)

DownloadReturn(c, final, code) ==
    /\ downloads' = downloads (-) SetToBag({c})
    /\ downloadSemaphore' = Release(downloadSemaphore)
    /\ done' = Returned("DownloadFile", code, final)

DownloadStep(c, c2) ==
    /\ downloads' = (downloads (-) SetToBag({c})) (+) SetToBag({c2})
    /\ downloadSemaphore' = downloadSemaphore
    /\ done' = NoDone

\* mutant of ChunkEnd: the clamped end stops one byte short
ChunkEndShort(data, i) ==
    IF i + chunkSize > len(data) THEN len(data) - 1 ELSE i + chunkSize

\* the end of the chunk the loop sends at offset i
ChunkEnd(data, i) ==
    IF i + chunkSize > len(data) THEN len(data) ELSE i + chunkSize

\* s.storage.GetFile(req.Id) of call c, whose request names id; a blob of
\* length 0 ends the call at once, the loop sending nothing
DownloadFileGetFile(c, id) ==
    /\ running
    /\ BagIn(c, downloads)
    /\ c.pc = "getFile"
    /\ LET r == storageGetFile(directory, id)
           got == [c EXCEPT !.id = id, !.data = r.data]
       IN  IF r.err # None
           THEN DownloadReturn(c, [c EXCEPT !.id = id], "NotFound")
           ELSE IF ~(0 < len(r.data))
           THEN DownloadReturn(c, got, "OK")
           ELSE DownloadStep(c, [got EXCEPT !.pc = "send"])
    /\ CanRLock(mu)
    /\ mu' = RUnlock(RLock(mu))
    /\ UNCHANGED calls
    /\ UNCHANGED <<now, directory, files, uploadSemaphore, listSemaphore,
                   uploads, lists, running, hist>>

\* mutant of DownloadFileSend: after a send that failed the loop goes on
\* with the next chunk
DownloadFileSendGoesOn(c, err) ==
    /\ running
    /\ BagIn(c, downloads)
    /\ c.pc = "send"
    /\ LET end == ChunkEnd(c.data, c.i)
           sent == [c EXCEPT !.sent = IF err # None THEN @
                                      ELSE Append(@, slice(c.data, c.i, end)),
                             !.i = c.i + chunkSize]
       IN  IF sent.i < len(c.data)
           THEN DownloadStep(c, sent)
           ELSE DownloadReturn(c, sent, IF err # None THEN err ELSE "OK")
    /\ UNCHANGED <<mu, calls>>
    /\ UNCHANGED <<now, directory, files, uploadSemaphore, listSemaphore,
                   uploads, lists, running, hist>>

\* stream.Send of the chunk at offset i returns err (nil or a transport
\* error); after the last chunk the call returns nil
DownloadFileSend(c, err) ==
    /\ running
    /\ BagIn(c, downloads)
    /\ c.pc = "send"
    /\ LET end == ChunkEnd(c.data, c.i)
           sent == [c EXCEPT !.sent = Append(@, slice(c.data, c.i, end)),
                             !.i = c.i + chunkSize]
       IN  IF err # None
           THEN DownloadReturn(c, c, err)
           ELSE IF sent.i < len(c.data)
           THEN DownloadStep(c, sent)
           ELSE DownloadReturn(c, sent, "OK")
    /\ UNCHANGED <<mu, calls>>
    /\ UNCHANGED <<now, directory, files, uploadSemaphore, listSemaphore,
                   uploads, lists, running, hist>>

-----------------------------------------------------------------------------
\* a ListFiles call right after admission
ListStart == [pc |-> "list"]

\* ListFiles arrives at server s
ServerListFilesOn(s) ==
    /\ running
    /\ IF TrySend(s.listSemaphore, listSemaphore)
       THEN /\ listSemaphore' = listSemaphore + 1
            /\ lists' = lists (+) SetToBag({ListStart})
            /\ done' = NoDone
       ELSE /\ done' = Returned("ListFiles", "ResourceExhausted", NoCall)
            /\ UNCHANGED <<listSemaphore, lists>>
    /\ UNCHANGED <<mu, calls>>
    /\ UNCHANGED <<now, directory, files, uploadSemaphore, downloadSemaphore,
                   uploads, downloads, running, hist>>

\* ListFiles arrives at the server NewServer made
ServerListFiles == ServerListFilesOn(Constructed)

\* a ListFiles call at its return: the request, what the storage returned
\* (listed) and the ListFilesResponse, which is empty unless the code is OK
ListReturned(pageSize, pageNumber, r, code) ==
    [pc |-> "returned", PageSize |-> pageSize, PageNumber |-> pageNumber,
     listed |-> [files |-> r.files, totalCount |-> r.totalCount],
     Files |-> IF code = "OK" THEN r.files ELSE <<>>,
     TotalCount |-> IF code = "OK" THEN r.totalCount ELSE 0]

\* s.storage.ListFiles(req.PageSize, req.PageNumber) of call c and its
\* return; a panic of the storage unwinds the handler (the deferred release
\* runs) and ends the process
ServerListFilesCall(c, pageSize, pageNumber, order) ==
    /\ running
    /\ BagIn(c, lists)
    /\ LET r == storageListFiles(files, pageSize, pageNumber, order)
           code == IF r.panic THEN "panic"
                   ELSE IF r.err # None THEN "Internal" ELSE "OK"
       IN  /\ lists' = lists (-) SetToBag({c})
           /\ listSemaphore' = Release(listSemaphore)
           /\ running' = ~r.panic
           /\ done' = Returned("ListFiles", code,
                               ListReturned(pageSize, pageNumber, r, code))
    /\ CanRLock(mu)
    /\ mu' = RUnlock(RLock(mu))
    /\ UNCHANGED calls
    /\ UNCHANGED <<now, directory, files, uploadSemaphore, downloadSemaphore,
                   uploads, downloads, hist>>

(***************************************************************************)
(* Start of the process.                                                   *)
(***************************************************************************)
\* main: NewStorage over the directory as found, NewServer with empty semaphores
InitWith(dir) ==
    /\ now = StartTime
    /\ directory = NewStorage(dir).directory
    /\ files = NewStorage(dir).files
    /\ mu = NewStorage(dir).mu
    /\ calls = EmptyBag
    /\ uploadSemaphore = 0
    /\ downloadSemaphore = 0
    /\ listSemaphore = 0
    /\ uploads = EmptyBag
    /\ downloads = EmptyBag
    /\ lists = EmptyBag
    /\ running = TRUE
    /\ done = NoDone
    /\ hist = [initial |-> DOMAIN dir, written |-> {}, saved |-> Empty,
               scan |-> NoScan, ret |-> NoRet]

\* the id an earlier run of the process made
OldId == Sprintf(StartTime - 1)

(***************************************************************************)
(* SpecStorage: the storage engine under direct calls.                     *)
(***************************************************************************)
Filenames == {"a.txt", "b.png"}

SmallBlobs == {<< <<1, 1>> >>, << <<1, 1>>, <<2, 1>> >>}

\* the page sizes and page numbers asked for, valid and not
PageSizes == -1 .. MaxPage

PageNumbers == 0 .. MaxPage

\* the directory is empty at start, or holds a blob of an earlier run
InitStorage ==
    \E dir \in {Empty, Put(Empty, OldId, << <<3, 1>> >>)} : InitWith(dir)

NextStorage ==
    \/ Tick
    \/ \E f \in Filenames, d \in SmallBlobs, w \in WriteOutcomes :
          SaveFile(f, d, w)
    \/ \E id \in Ids : GetFile(id)

SpecStorage == InitStorage /\ [][NextStorage]_vars

(***************************************************************************)
(* SpecList: the catalog under direct SaveFile and ListFiles calls.        *)
(***************************************************************************)
NextList ==
    \/ Tick
    \/ \E w \in WriteOutcomes : SaveFile("a.txt", << <<1, 1>> >>, w)
    \/ \E pageSize \in PageSizes, pageNumber \in PageNumbers,
          order \in Orders(DOMAIN files) :
          ListFiles(pageSize, pageNumber, order)

SpecList == InitStorage /\ [][NextList]_vars

(***************************************************************************)
(* Spec: the server over the storage engine, under bursts of calls.  The   *)
(* environment is bounded as follows: while one kind of call has more than *)
(* MaxStreaming calls in flight no call of another kind arrives; at most   *)
(* MaxStreaming calls are past the first message of their stream, the      *)
(* others stalled before it; uploads are of one filename and of at most    *)
(* one chunk of one byte, and the burst is over within one reading of the  *)
(* clock.                                                                  *)
(***************************************************************************)
InFlight(bag) == BagCardinality(bag)

\* no burst of another kind is under way
Quiet(other1, other2) == InFlight(other1) + InFlight(other2) <= MaxStreaming

Init == InitWith(Empty)

NextUploads(filenames, chunks, maxMsgs, maxStreaming) ==
    \/ \E c \in BagToSet(uploads) :
          \/ \E f \in filenames :
                Streaming < maxStreaming /\ UploadFileRecvFirst(c, Recv(Info(f)))
          \/ \E d \in chunks : UploadFileRecvFirst(c, Recv(Chunk(d)))
          \/ \E r \in {RecvEOF, RecvErr} : UploadFileRecvFirst(c, r)
    \/ \E c \in BagToSet(uploads) :
          \/ \E d \in chunks :
                Len(c.msgs) <= maxMsgs /\ UploadFileRecv(c, Recv(Chunk(d)))
          \/ UploadFileRecv(c, RecvErr)
    \/ \E c \in BagToSet(uploads), w \in WriteOutcomes : UploadFileSave(c, w)
    \/ \E c \in BagToSet(uploads), err \in {None, "ERR"} :
          UploadFileSendAndClose(c, err)

NextDownloads ==
    \/ \E c \in BagToSet(downloads), id \in Ids :
          /\ Streaming < MaxStreaming \/ storageGetFile(directory, id).err # None
          /\ DownloadFileGetFile(c, id)
    \/ \E c \in BagToSet(downloads), err \in {None, "ERR"} :
          DownloadFileSend(c, err)

NextLists(pageSizes, pageNumbers) ==
    \E c \in BagToSet(lists), pageSize \in pageSizes, pageNumber \in pageNumbers,
       order \in Orders(DOMAIN files) :
          ServerListFilesCall(c, pageSize, pageNumber, order)

Next ==
    \/ Quiet(downloads, lists) /\ UploadFile
    \/ Quiet(uploads, lists) /\ DownloadFile
    \/ Quiet(uploads, downloads) /\ ServerListFiles
    \/ NextUploads({"a.txt"}, {<< <<1, 1>> >>}, 1, MaxStreaming)
    \/ NextDownloads
    \/ NextLists({-1, 1}, {1})

Spec == Init /\ [][Next]_vars

(***************************************************************************)
(* SpecLive: the server under a burst of uploads and one download or list  *)
(* call at a time, which also comes in while the upload pool is full; all  *)
(* calls come in during the first reading of the clock, none later.  Every *)
(* handler step that                                                       *)
(* can be taken is taken in the end (the client's stream delivers its next *)
(* message, its end or its failure; the storage call returns), but no      *)
(* client has to call, and the clock need not advance.                     *)
(***************************************************************************)
Handlers ==
    \/ NextUploads({"a.txt"}, {<< <<1, 1>> >>}, 1, 1)
    \/ NextDownloads
    \/ NextLists({-1, 1}, {1})

\* no download and no list call is in flight, and the uploads are few or
\* fill their pool
OneOther ==
    /\ InFlight(downloads) + InFlight(lists) = 0
    /\ InFlight(uploads) <= 1 \/ uploadSemaphore = MaxUploadConcurrency

NextLive ==
    \/ Tick
    \/ now = StartTime /\ InFlight(downloads) + InFlight(lists) = 0 /\ UploadFile
    \/ now = StartTime /\ OneOther /\ DownloadFile
    \/ now = StartTime /\ OneOther /\ ServerListFiles
    \/ Handlers

SpecLive == Init /\ [][NextLive]_vars /\ WF_vars(Handlers)

(***************************************************************************)
(* SpecUpload: the server under uploads only, over an empty directory or   *)
(* one an earlier run left a blob in.  At most two uploads are in flight,  *)
(* one of them past its first message; a stream carries at most MaxMsgs    *)
(* chunks, each one byte; the uploads fall within one reading of the       *)
(* clock.                                                                  *)
(***************************************************************************)
ByteChunks == {<< <<1, 1>> >>, << <<2, 1>> >>}

NextUpload ==
    \/ InFlight(uploads) <= 1 /\ UploadFile
    \/ NextUploads(Filenames, ByteChunks, MaxMsgs, 1)

SpecUpload == InitStorage /\ [][NextUpload]_vars

(***************************************************************************)
(* SpecDownload: the server under downloads only, over a directory in      *)
(* which an earlier run left one blob, of a length around the chunk size.  *)
(***************************************************************************)
Blobs ==
    { <<>>,
      << <<1, 1>> >>,
      << <<1, chunkSize>> >>,
      << <<1, chunkSize>>, <<2, 1>> >>,
      << <<1, chunkSize - 1>>, <<2, 2>> >>,
      << <<1, chunkSize>>, <<2, chunkSize>> >>,
      << <<1, chunkSize - 1>>, <<2, chunkSize + 1>>, <<3, 1>> >> }

InitDownload == \E d \in Blobs : InitWith(Put(Empty, OldId, d))

NextDownload ==
    \/ InFlight(downloads) <= MaxStreaming /\ DownloadFile
    \/ NextDownloads

SpecDownload == InitDownload /\ [][NextDownload]_vars

(***************************************************************************)
(* SpecServerList: the server under ListFiles calls, over a catalog that   *)
(* direct SaveFile calls fill.  At most two list calls are in flight.      *)
(***************************************************************************)
NextServerList ==
    \/ Tick
    \/ \E w \in WriteOutcomes : SaveFile("a.txt", << <<1, 1>> >>, w)
    \/ InFlight(lists) <= 1 /\ ServerListFiles
    \/ NextLists(PageSizes, PageNumbers)

SpecServerList == InitStorage /\ [][NextServerList]_vars

(***************************************************************************)
(* SpecLock: the storage engine under concurrent direct calls, statement   *)
(* by statement.  At most MaxReaders calls read at once; saves are of one  *)
(* filename and one blob of two bytes, reads of the blob of an earlier run and of the first id this  *)
(* run can make.                                                           *)
(***************************************************************************)
NextLock ==
    \/ Tick
    \/ SaveFileLock("a.txt", << <<1, 1>>, <<2, 1>> >>)
    \/ \E c \in BagToSet(calls), w \in WriteOutcomes : SaveFileWrite(c, w)
    \/ \E c \in BagToSet(calls) : SaveFileInsert(c)
    \/ \E id \in {OldId, NewId(StartTime)} :
          BagCardinality(calls) < MaxReaders /\ GetFileRLock(id)
    \/ \E c \in BagToSet(calls) : GetFileRead(c)
    \/ BagCardinality(calls) < MaxReaders /\ ListFilesRLock(1, 1)
    \/ \E c \in BagToSet(calls), order \in Orders(DOMAIN files) : ListFilesList(c, order)

SpecLock == InitStorage /\ [][NextLock]_vars

(***************************************************************************)
(* SpecServe: the process as main runs it, NewStorage over the directory   *)
(* as it is found, NewServer and Serve; calls come in from the network to  *)
(* the server that Serve registered.                                       *)
(***************************************************************************)
\* the directories main can find: some files, left by earlier runs or others
Directories == UNION {[S -> SmallBlobs] : S \in SUBSET Ids}

InitServe == \E dir \in Directories : InitWith(dir)

\* the server behind the port
Served == Serve(Constructed)

NextServe ==
    \/ Tick
    \/ UploadFileOn(Served)
    \/ DownloadFileOn(Served)
    \/ ServerListFilesOn(Served)

SpecServe == InitServe /\ [][NextServe]_vars

(***************************************************************************)
(* Claims about admission.                                                 *)
(***************************************************************************)
\* C1: at any time at most 10 UploadFile calls, 10 DownloadFile calls and 100
\* ListFiles calls are past admission and not yet returned.
C1_AdmissionBound ==
    /\ InFlight(uploads) <= 10
    /\ InFlight(downloads) <= 10
    /\ InFlight(lists) <= 100

\* ten uploads are in flight and an eleventh has just been turned away
C1_Witness ==
    /\ InFlight(uploads) = 10
    /\ done.op = "UploadFile"
    /\ done.code = "ResourceExhausted"

\* the arriving call is turned away in this very step: it is not in flight
\* afterwards and no slot is taken
TurnedAway(op, sem, bag) ==
    /\ done' = Returned(op, "ResourceExhausted", NoCall)
    /\ bag' = bag
    /\ sem' = sem

\* the arriving call is past admission after the step, holding one slot
Admitted(sem, bag, start) ==
    /\ done'.code # "ResourceExhausted"
    /\ bag' = bag (+) SetToBag({start})
    /\ sem' = sem + 1

\* C2: an arriving call is turned away with ResourceExhausted exactly when
\* the pool of its operation holds as many slots as its capacity; it is
\* turned away in the step of its arrival, and is admitted otherwise.
C2_TryAcquire ==
    [][ /\ UploadFile =>
              IF uploadSemaphore = MaxUploadConcurrency
              THEN TurnedAway("UploadFile", uploadSemaphore, uploads)
              ELSE Admitted(uploadSemaphore, uploads, UploadStart)
        /\ DownloadFile =>
              IF downloadSemaphore = MaxDownloadConcurrency
              THEN TurnedAway("DownloadFile", downloadSemaphore, downloads)
              ELSE Admitted(downloadSemaphore, downloads, DownloadStart)
        /\ ServerListFiles =>
              IF listSemaphore = MaxListConcurrency
              THEN TurnedAway("ListFiles", listSemaphore, lists)
              ELSE Admitted(listSemaphore, lists, ListStart) ]_vars

\* a download has just been turned away, the download pool full
C2_Witness ==
    /\ done = Returned("DownloadFile", "ResourceExhausted", NoCall)
    /\ downloadSemaphore = MaxDownloadConcurrency
    /\ InFlight(downloads) = MaxDownloadConcurrency

\* C3: each pool holds exactly one slot per call of its kind in flight, so
\* with no call in flight the pool is empty and the next call is admitted.
C3_SlotsMatchCalls ==
    /\ uploadSemaphore = InFlight(uploads)
    /\ downloadSemaphore = InFlight(downloads)
    /\ listSemaphore = InFlight(lists)
    /\ InFlight(uploads) = 0 => TryAcquire(uploadSemaphore, MaxUploadConcurrency)
    /\ InFlight(downloads) = 0 => TryAcquire(downloadSemaphore, MaxDownloadConcurrency)
    /\ InFlight(lists) = 0 => TryAcquire(listSemaphore, MaxListConcurrency)

\* an upload has just ended on a first message without file info while nine
\* other uploads are in flight
C3_Witness ==
    /\ done.op = "UploadFile"
    /\ done.code = "InvalidArgument"
    /\ InFlight(uploads) = MaxUploadConcurrency - 1
    /\ uploadSemaphore = MaxUploadConcurrency - 1

\* C16: calls that come in through Serve are handled by the server NewServer
\* made, with its storage engine and its pools of 10, 10 and 100 slots: a
\* first Upload, Download or List call on an idle served process is never
\* turned away with ResourceExhausted.
C16_ServedIsConstructed ==
    [][ /\ InFlight(uploads) = 0 =>
              done' # Returned("UploadFile", "ResourceExhausted", NoCall)
        /\ InFlight(downloads) = 0 =>
              done' # Returned("DownloadFile", "ResourceExhausted", NoCall)
        /\ InFlight(lists) = 0 =>
              done' # Returned("ListFiles", "ResourceExhausted", NoCall) ]_vars

(***************************************************************************)
(* Claims about UploadFile.                                                *)
(***************************************************************************)
\* the step just taken returned from an upload that had been admitted
UploadEnded(d) == d.op = "UploadFile" /\ d.code # "ResourceExhausted"

\* the first message of the stream was a chunk
ChunkFirst(c) == c.msgs # <<>> /\ c.msgs[1].kind = "chunk"

\* C6: an upload whose first message is a chunk ends with InvalidArgument on
\* that message: it receives no further message, never calls SaveFile, and
\* the catalog and the blobs are as they were.
C6_InvalidStart ==
    [][ /\ \A c \in BagToSet(uploads') : ~ChunkFirst(c)
        /\ (UploadEnded(done') /\ ChunkFirst(done'.call)) =>
              /\ done'.code = "InvalidArgument"
              /\ Len(done'.call.msgs) = 1
              /\ done'.call.saves = <<>>
              /\ files' = files
              /\ directory' = directory ]_vars

\* an upload has just ended so, over a catalog and a directory that are not empty
C6_Witness ==
    /\ UploadEnded(done)
    /\ ChunkFirst(done.call)
    /\ done.code = "InvalidArgument"
    /\ DOMAIN files # {}
    /\ DOMAIN directory # {}

\* the stream is FileInfo and then chunks only
InfoThenChunks(msgs) ==
    /\ msgs # <<>>
    /\ msgs[1].kind = "info"
    /\ \A i \in 2 .. Len(msgs) : msgs[i].kind = "chunk"

\* a slice written out byte by byte
RECURSIVE Bytes(_)
Bytes(d) ==
    IF d = <<>> THEN <<>> ELSE [k \in 1 .. d[1][2] |-> d[1][1]] \o Bytes(Tail(d))

\* the bytes of the chunks msgs[i..], one after the other, and their number
RECURSIVE ChunksFrom(_, _)
ChunksFrom(msgs, i) ==
    IF i > Len(msgs) THEN <<>> ELSE Bytes(msgs[i].data) \o ChunksFrom(msgs, i + 1)

RECURSIVE ChunksLen(_, _)
ChunksLen(msgs, i) ==
    IF i > Len(msgs) THEN 0 ELSE len(msgs[i].data) + ChunksLen(msgs, i + 1)

\* C7: an upload of FileInfo{filename}, chunk_1 .. chunk_k that returns OK has
\* called SaveFile exactly once, with that filename and the chunks in order
\* of arrival, and answers with the id SaveFile returned, that filename and
\* the sum of the chunk lengths, the size SaveFile put in the catalog.
C7_UploadResponse ==
    (UploadEnded(done) /\ done.code = "OK" /\ InfoThenChunks(done.call.msgs)) =>
        LET c == done.call
            filename == c.msgs[1].filename
        IN  /\ Len(c.saves) = 1
            /\ c.saves[1].err = None
            /\ c.saves[1].filename = filename
            /\ Bytes(c.saves[1].data) = ChunksFrom(c.msgs, 2)
            /\ c.resp.Id = c.saves[1].id
            /\ c.resp.Filename = filename
            /\ c.resp.Size = ChunksLen(c.msgs, 2)
            /\ c.resp.Size = c.saves[1].size

\* an upload of two different chunks has just returned OK
C7_Witness ==
    /\ UploadEnded(done)
    /\ done.code = "OK"
    /\ InfoThenChunks(done.call.msgs)
    /\ Len(done.call.msgs) = 3
    /\ done.call.msgs[2] # done.call.msgs[3]
    /\ done.call.resp.Size = 2

\* the write of the last SaveFile call of upload c failed
WriteFailed(c) == c.saves # <<>> /\ c.saves[Len(c.saves)].write # "ok"

\* C13: when the blob write inside SaveFile fails, SaveFile returns an error
\* and no id, the catalog is what it was before the call, the mutex is free
\* again, and the upload ends there with Internal, no response built or sent.
C13_FailedWrite ==
    [][ /\ \A c \in BagToSet(uploads') : ~WriteFailed(c)
        /\ (UploadEnded(done') /\ WriteFailed(done'.call)) =>
              LET c == done'.call
                  save == c.saves[Len(c.saves)]
              IN  /\ save.err # None
                  /\ save.id = <<>>
                  /\ files' = files
                  /\ mu' = Unlocked
                  /\ done'.code = "Internal"
                  /\ Len(c.saves) = 1
                  /\ c.resp = NoResp ]_vars

\* an upload has just ended on a write that stopped early, the catalog not empty
C13_Witness ==
    /\ UploadEnded(done)
    /\ WriteFailed(done.call)
    /\ done.call.saves[1].write = "short"
    /\ done.code = "Internal"
    /\ DOMAIN files # {}

\* the stream of upload c came to end-of-input after a first message with
\* file info
EndedWell(c) == c.ended = "EOF" /\ c.msgs # <<>> /\ c.msgs[1].kind = "info"

\* C17: SaveFile is called only after end-of-input has come, following a
\* first message with file info. An upload whose stream fails before that
\* (before the first message, or after any number of chunks) calls SaveFile
\* never: no catalog entry and no blob is made, and its slot is given back.
C17_AllOrNothing ==
    [][ /\ \A c \in BagToSet(uploads') : c.saves # <<>> => EndedWell(c)
        /\ UploadEnded(done') =>
              LET c == done'.call
              IN  /\ c.saves # <<>> => EndedWell(c)
                  /\ ~EndedWell(c) =>
                        /\ files' = files
                        /\ directory' = directory
                        /\ uploadSemaphore' = uploadSemaphore - 1
                        /\ InFlight(uploads') = InFlight(uploads) - 1 ]_vars

\* an upload has just ended on a stream that failed after two chunks
C17_Witness ==
    /\ UploadEnded(done)
    /\ done.call.ended = "ERR"
    /\ Len(done.call.msgs) = 3
    /\ done.call.saves = <<>>

\* no call is in flight and every slot is free
Idle ==
    /\ InFlight(uploads) + InFlight(downloads) + InFlight(lists) = 0
    /\ uploadSemaphore + downloadSemaphore + listSemaphore = 0

\* C19: no timeout gives back the slot of an upload: a slot is freed only by
\* the return of a handler, so ten uploads whose clients stay silent hold the
\* pool and every further upload is turned away, while downloads and list
\* calls are turned away only when their own pool is full. And when every
\* stream ends or fails in the end and the storage calls return, every
\* admitted call returns and the slots are free once calls stop coming in.
C19_StalledAndLive ==
    /\ [][ /\ uploadSemaphore' < uploadSemaphore => UploadEnded(done')
           /\ uploadSemaphore = 10 =>
                 /\ uploadSemaphore' <= 10
                 /\ InFlight(uploads') <= 10
           /\ done' = Returned("DownloadFile", "ResourceExhausted", NoCall) =>
                 downloadSemaphore = 10
           /\ done' = Returned("ListFiles", "ResourceExhausted", NoCall) =>
                 listSemaphore = 100 ]_vars
    /\ (now > StartTime) ~> (Idle \/ ~running)

\* ten uploads wait for their first message, the clock has advanced, and a
\* download that came in meanwhile is in flight
C19_Witness ==
    /\ InFlight(uploads) = 10
    /\ \A c \in BagToSet(uploads) : c.pc = "recvFirst"
    /\ now > StartTime
    /\ InFlight(downloads) = 1

(***************************************************************************)
(* Claims about DownloadFile.                                              *)
(***************************************************************************)
DownloadEnded(d) == d.op = "DownloadFile" /\ d.code # "ResourceExhausted"

\* the chunks, one after the other
RECURSIVE Joined(_)
Joined(chunks) == IF chunks = <<>> THEN <<>> ELSE append(Head(chunks), Joined(Tail(chunks)))

\* C8: a download that completes has sent ceil(L / 1 MiB) chunks for a blob
\* of length L, none empty, all but the last of exactly 1 MiB, which joined
\* in the order sent are the blob GetFile returns.
C8_ChunkFidelity ==
    (DownloadEnded(done) /\ done.code = "OK") =>
        LET c == done.call
            blob == storageGetFile(directory, c.id).data
            L == len(blob)
            n == Len(c.sent)
        IN  /\ n = (L + 1048576 - 1) \div 1048576
            /\ \A k \in 1 .. n : len(c.sent[k]) > 0
            /\ \A k \in 1 .. n - 1 : len(c.sent[k]) = 1048576
            /\ n > 0 => len(c.sent[n]) <= 1048576
            /\ Joined(c.sent) = blob

\* a download of a blob of two chunks and one byte has just completed
C8_Witness ==
    /\ DownloadEnded(done)
    /\ done.code = "OK"
    /\ Len(done.call.sent) = 3
    /\ len(done.call.data) = 2 * 1048576 + 1

\* the chunks download c has sent are the first chunks of its blob, in order
SentPrefix(c) ==
    LET blob == storageGetFile(directory, c.id).data
        L == len(blob)
    IN  \A k \in 1 .. Len(c.sent) :
            /\ (k - 1) * 1048576 < L
            /\ c.sent[k] = slice(blob, (k - 1) * 1048576,
                                 IF k * 1048576 < L THEN k * 1048576 ELSE L)

\* C18: the chunks a download has sent so far are, in order, the first chunks
\* of the blob: a chunk is sent only after those before it were accepted.
\* A send that fails ends the call with that error, so no call goes on
\* sending with a chunk missing.
C18_SentPrefix ==
    /\ \A c \in BagToSet(downloads) :
          c.pc = "send" =>
              /\ SentPrefix(c)
              /\ c.i = Len(c.sent) * 1048576
              /\ c.i < len(c.data)
    /\ (DownloadEnded(done) /\ done.code # "NotFound") =>
          /\ SentPrefix(done.call)
          /\ done.code # "OK" =>
                Len(done.call.sent) * 1048576 < len(done.call.data)

\* a download has just ended on the failed send of its third chunk
C18_Witness ==
    /\ DownloadEnded(done)
    /\ done.code = "ERR"
    /\ Len(done.call.sent) = 2

\* C9: a download of an id for which GetFile fails ends with NotFound, no
\* chunk sent.
C9_NotFound ==
    /\ \A c \in BagToSet(downloads) : c.pc = "send" => c.id \in DOMAIN directory
    /\ (DownloadEnded(done) /\ done.call.id \notin DOMAIN directory) =>
          /\ done.code = "NotFound"
          /\ done.call.sent = <<>>

\* a download of an id that names no blob has just ended
C9_Witness ==
    /\ DownloadEnded(done)
    /\ done.call.id \notin DOMAIN directory
    /\ done.code = "NotFound"

(***************************************************************************)
(* Claims about ListFiles.                                                 *)
(***************************************************************************)
\* the step just taken returned from a list call that had been admitted
ListEnded(d) == d.op = "ListFiles" /\ d.code # "ResourceExhausted"

\* page p of pageSize exists in a catalog of n entries
ValidPage(n, pageSize, p) ==
    pageSize > 0 /\ p >= 1 /\ p <= (n + pageSize - 1) \div pageSize

\* the entries are entries of the catalog, no two the same
DistinctEntries(page, cat) ==
    /\ \A k \in DOMAIN page : page[k].Id \in DOMAIN cat /\ page[k] = cat[page[k].Id]
    /\ \A j, k \in DOMAIN page : page[j].Id = page[k].Id => j = k

\* C11: for a catalog of N entries and a page p of pageSize > 0 with
\* 1 <= p <= ceil(N / pageSize), the storage returns min(pageSize,
\* N - pageSize * (p - 1)) entries, distinct entries of the catalog, and the
\* total count N; the server call returns just these files and this count.
C11_PageWindow ==
    LET c == done.call
        N == Cardinality(DOMAIN files)
    IN  (ListEnded(done) /\ ValidPage(N, c.PageSize, c.PageNumber)) =>
            LET rest == N - c.PageSize * (c.PageNumber - 1)
            IN  /\ done.code = "OK"
                /\ Len(c.listed.files) = IF c.PageSize < rest THEN c.PageSize ELSE rest
                /\ DistinctEntries(c.listed.files, files)
                /\ c.listed.totalCount = N
                /\ c.Files = c.listed.files
                /\ c.TotalCount = c.listed.totalCount

\* the second page of size one of a catalog of two entries has just been returned
C11_Witness ==
    /\ ListEnded(done)
    /\ done.code = "OK"
    /\ done.call.PageSize = 1
    /\ done.call.PageNumber = 2
    /\ Len(done.call.Files) = 1
    /\ done.call.TotalCount = 2

\* C15: ListFiles is total. Whatever pageSize and pageNumber, the call returns
\* with no error and no crash a window that is empty or holds entries of the
\* catalog, and the total count N; the read lock and the slot are given back.
C15_ListTotal ==
    /\ running
    /\ ListEnded(done) =>
          /\ done.code = "OK"
          /\ DistinctEntries(done.call.Files, files)
          /\ done.call.TotalCount = Cardinality(DOMAIN files)
          /\ mu = Unlocked
          /\ listSemaphore = InFlight(lists)

(***************************************************************************)
(* Claims about the storage engine.                                        *)
(***************************************************************************)
\* C4: round trip. Every id a SaveFile has returned for some data is read
\* back by GetFile as exactly that data, whatever calls came in between.
C4_RoundTrip ==
    \A id \in DOMAIN hist.saved :
        storageGetFile(directory, id) = [data |-> hist.saved[id], err |-> None]

\* the ids of the pages of the scan, page after page
RECURSIVE Flatten(_)
Flatten(pages) == IF pages = <<>> THEN <<>> ELSE Head(pages) \o Flatten(Tail(pages))

\* pages 1 .. ceil(N / pageSize) have all been returned, the catalog unchanged
ScanComplete ==
    /\ hist.scan.pageSize > 0
    /\ hist.scan.pages # <<>>
    /\ Len(hist.scan.pages) = CeilDiv(Cardinality(DOMAIN files), hist.scan.pageSize)

\* C5: pagination coverage. The pages 1 .. ceil(N / pageSize) of an unmodified
\* catalog of N entries hold every catalog id exactly once.
C5_PaginationCoverage ==
    ScanComplete =>
        LET ids == Flatten(hist.scan.pages)
        IN  /\ Len(ids) = Cardinality(DOMAIN files)
            /\ {ids[i] : i \in DOMAIN ids} = DOMAIN files

\* C12: in every state outside SaveFile's critical section every id of the
\* catalog has a blob in the directory, at the path made of that id, of the
\* length the catalog entry records.
C12_CatalogHasBlob ==
    \A id \in DOMAIN files :
        /\ Join(id) \in DOMAIN directory
        /\ len(directory[Join(id)]) = files[id].Size

\* C14: a successful SaveFile returns an id no earlier save returned: it
\* overwrites no blob and no catalog entry, the entries there stay as they
\* are, and the catalog grows by one with every successful save.
C14_FreshId ==
    [][ (hist'.ret.op = "SaveFile" /\ hist'.ret.err = None) =>
            /\ hist'.ret.id \notin DOMAIN hist.saved
            /\ hist'.ret.id \notin DOMAIN files
            /\ Join(hist'.ret.id) \notin hist.written
            /\ \A id \in DOMAIN files : id \in DOMAIN files' /\ files'[id] = files[id]
            /\ Cardinality(DOMAIN files') = Cardinality(DOMAIN files) + 1 ]_vars

\* a SaveFile is in its critical section
Saving == \E c \in BagToSet(calls) : c.op = "SaveFile"

\* C20: no SaveFile critical section overlaps another critical section, and
\* a reader never sees a save in progress: whenever the mutex is not held by
\* a SaveFile, every id in the catalog (what ListFiles returns) and every id
\* a SaveFile has returned is read by GetFile as the complete saved bytes,
\* never NotFound, never a blob written in part.
C20_ReadersSeeWholeSaves ==
    /\ Saving => BagCardinality(calls) = 1 /\ mu = Lock(Unlocked)
    /\ ~Saving => /\ mu = [writer |-> FALSE, readers |-> BagCardinality(calls)]
                  /\ DOMAIN files \subseteq DOMAIN hist.saved
                  /\ \A id \in DOMAIN hist.saved :
                        storageGetFile(directory, id)
                            = [data |-> hist.saved[id], err |-> None]

====
